---- MODULE Spec2Model ----
(***************************************************************************)
(* registry-cleaner (src/main.go): a batch run that walks the catalog of a *)
(* docker registry, resolves the creation time of every tagged manifest    *)
(* and deletes (or dry-logs) the manifests older than -num days.           *)
(*                                                                         *)
(* src/main.go holds two variants of the program: lines 1-293 (logrus,     *)
(* -keep / -remove patterns) and lines 295-521 (no patterns, FOUND dump).  *)
(* The variable `variant` selects which one a behaviour runs.              *)
(***************************************************************************)
EXTENDS Integers, Sequences, FiniteSets, TLC

VARIABLES
    variant,    \* 1: src/main.go:1-293, 2: src/main.go:295-521
    numDays,    \* flag -num
    dry,        \* flag -dry
    keepRepo,   \* compiled -keep pattern or Nil
    removeRepo, \* compiled -remove pattern or Nil
    now,        \* time.Now() read in main
    oldest,     \* main: oldest
    pc,         \* position of the single thread of control
    repos,      \* getAllRepos: repos
    last,       \* getAllRepos: last
    reps,       \* getAllRepos: reps, the page buffer after the request
    err,        \* getAllRepos: err of the last request
    cursor,     \* the `last` argument sent with the most recent page request
    ri,         \* main: index of the repository being processed
    registry,   \* tag service of the current repository: tag -> digest or error
    all,        \* getBlobInfos: all
    ti,         \* getBlobInfos: index into all
    tg,         \* getBlobInfos: tg, e of the last r.tags.Get
    res,        \* getBlobInfos: tm, e of the last r.getCreated
    result,     \* getBlobInfos: result
    blobs,      \* main: blobs
    bix,        \* main: index into blobs
    calls,      \* manifests.Delete calls issued for the current repository
    logs,       \* log lines written while processing the current repository
    mfresp,     \* resolver input: what manifests.Get / Payload answer
    blobstore   \* resolver input: what blobs.Get answers, per blob digest

vars == <<variant, numDays, dry, keepRepo, removeRepo, now, oldest, pc, repos,
          last, reps, err, cursor, ri, registry, all, ti, tg, res, result,
          blobs, bix, calls, logs, mfresp, blobstore>>

(***************************************************************************)
(* Bounds                                                                  *)
(***************************************************************************)
MaxRepos == 2       \* repository names a catalog walk returns in total
MaxTags == 2        \* tags of one repository
MaxWall == 3        \* wall-clock values of a timestamp text: 1..MaxWall
Day == 2            \* 24 * time.Hour, in the model's time unit of 12 hours

RepoNames == {"a", "b"}
PageSize == 2       \* entries of the page buffer reps
AllTags == <<"t1", "t2", "t3", "t4">>
TagNames == {AllTags[i] : i \in 1..MaxTags}
Digests == {"d1", "d2"}
BlobDigests == {"c1", "c2"}
Offsets == {0, 1}
Days == {-1, 0, 1}
Nows == {4}
RunWalls == {1, 2, 3}

(***************************************************************************)
(* Untyped JSON documents, as encoding/json decodes them into              *)
(* map[string]interface{}.  An object is a record whose missing fields     *)
(* hold Absent.                                                            *)
(***************************************************************************)
Nil == [k |-> "nil"]
Absent == [k |-> "absent"]
Null == [k |-> "null"]
Num == [k |-> "number"]
Str(t) == [k |-> "string", s |-> t]
Obj(f) == [k |-> "object", f |-> f]
Arr(a) == [k |-> "array", items |-> a]

\* The text of a byte slice or of a string.
Garbage == [t |-> "garbage"]
Json(v) == [t |-> "json", v |-> v]
Rfc3339(w, o) == [t |-> "rfc3339", wall |-> w, off |-> o]

\* json.Unmarshal(text, &map): the fields of a JSON object; the error of any
\* other text is dropped by the callers and the map stays empty.
EmptyMap == [x \in {} |-> Nil]
Unmarshal(text) ==
    IF text.t = "json" /\ text.v.k = "object" THEN text.v.f ELSE EmptyMap

\* m[key] of a map[string]interface{}: nil for a missing key and for JSON null.
Lookup(m, key) ==
    IF key \in DOMAIN m
    THEN IF m[key].k \in {"absent", "null"} THEN Nil ELSE m[key]
    ELSE Nil

\* time.Parse(time.RFC3339Nano, s): the instant is the wall clock minus the
\* zone offset; the offset stays in the time.Time value.
ParseOk(text) == text.t = "rfc3339"
ParseTime(text) == [inst |-> text.wall - text.off, off |-> text.off]

\* Before with the comparison `<=`: a record created exactly at the cutoff counts
\* as old
BeforeOrEqual(t, u) == t.inst <= u.inst

\* t.Before(u) compares instants.
Before(t, u) == t.inst < u.inst

(***************************************************************************)
(* repository.getCreated, src/main.go:98-139.  The outcome is a timestamp, *)
(* an error value handed to the caller, or a run-time panic (a failed type *)
(* assertion or an index out of range; nothing in the program recovers).   *)
(***************************************************************************)
Ok(tm) == [kind |-> "ok", tm |-> tm]
Fail(msg) == [kind |-> "err", msg |-> msg]
Panic == [kind |-> "panic"]
NoCall == [kind |-> "none"]
FetchError == [t |-> "error"]

\* time.Parse(time.RFC3339Nano, m["created"].(string)); return &tm, e
parseCreated(m) ==
    LET c == Lookup(m, "created") IN
    IF c.k # "string" THEN Panic
    ELSE IF ParseOk(c.s) THEN Ok(ParseTime(c.s))
    ELSE Fail("parsing time")

\* firstHistory taking the last element of the array instead of the first
lastHistory(hist) == hist.items[Len(hist.items)]

\* h := hist.([]interface{})[0]
firstHistory(hist) == hist.items[1]

\* the branch taken when plmap["config"] is nil
historyPath(plmap, dig) ==
    LET hist == Lookup(plmap, "history") IN
    IF hist.k = "nil" THEN Fail("no config and history found for digest")
    ELSE IF hist.k # "array" THEN Panic
    ELSE IF Len(hist.items) = 0 THEN Panic
    ELSE LET h == firstHistory(hist) IN
         IF h.k # "object" THEN Panic
         ELSE LET v1compat == Lookup(h.f, "v1Compatibility") IN
              IF v1compat.k = "nil"
              THEN Fail("no v1Compatibility node in history object")
              ELSE IF v1compat.k # "string" THEN Panic
              ELSE parseCreated(Unmarshal(v1compat.s))

\* the branch taken when plmap["config"] is not nil
configPath(plmap, blobsvc) ==
    LET cfg == Lookup(plmap, "config") IN
    IF cfg.k # "object" THEN Panic
    ELSE LET digs == Lookup(cfg.f, "digest") IN
         IF digs.k # "string" THEN Panic
         ELSE LET pl == blobsvc[digs.s] IN
              IF pl.t = "error" THEN Fail("blob fetch")
              ELSE parseCreated(Unmarshal(pl))

getCreated(dig, mf, blobsvc) ==
    IF mf.t = "error" THEN Fail("cannot query manifest")
    ELSE LET plmap == Unmarshal(mf)
             config == Lookup(plmap, "config")
         IN IF config.k = "nil" THEN historyPath(plmap, dig)
            ELSE configPath(plmap, blobsvc)

(***************************************************************************)
(* What the registry can answer to the resolver.                           *)
(***************************************************************************)
TimeTexts == {Rfc3339(w, o) : w \in 1..MaxWall, o \in Offsets} \cup {Garbage}
CreatedVals == {Absent, Num} \cup {Str(t) : t \in TimeTexts}
DocTexts == {Garbage, Json(Num)} \cup {Json(Obj([created |-> c])) : c \in CreatedVals}
V1Vals == {Absent, Null, Num} \cup {Str(t) : t \in DocTexts}
HistEntries == {Num} \cup {Obj([v1Compatibility |-> v]) : v \in V1Vals}
Histories ==
    {Absent, Null, Num, Arr(<<>>)} \cup {Arr(<<h>>) : h \in HistEntries}
        \cup {Arr(<<h1, h2>>) : h1 \in HistEntries, h2 \in HistEntries}
Configs ==
    {Absent, Null, Num, Obj([digest |-> Absent]), Obj([digest |-> Num])}
        \cup {Obj([digest |-> Str(c)]) : c \in BlobDigests}
ManifestTexts ==
    {Garbage, Json(Num)}
        \cup {Json(Obj([config |-> c, history |-> h])) : c \in Configs, h \in Histories}
ManifestResps == {FetchError} \cup ManifestTexts
BlobResps == {FetchError} \cup DocTexts
BlobStores == [BlobDigests -> BlobResps]

Idle == [t |-> "idle"]
NoStore == [c \in BlobDigests |-> FetchError]

(***************************************************************************)
(* The resolver alone: one call of getCreated on any answer of the         *)
(* registry.                                                               *)
(***************************************************************************)
InitResolver ==
    /\ variant \in {1, 2}
    /\ numDays = -1 /\ dry = TRUE /\ keepRepo = Nil /\ removeRepo = Nil
    /\ now = 0 /\ oldest = 0
    /\ pc = "getCreated"
    /\ repos = <<>> /\ last = "" /\ reps = <<>> /\ err = "nil" /\ cursor = ""
    /\ ri = 0 /\ registry = <<>> /\ all = <<>> /\ ti = 0
    /\ tg = [digest |-> "d1", failed |-> FALSE]
    /\ res = NoCall
    /\ result = <<>> /\ blobs = <<>> /\ bix = 0 /\ calls = {} /\ logs = {}
    /\ mfresp \in ManifestResps
    /\ blobstore \in BlobStores

Resolve ==
    /\ pc = "getCreated"
    /\ res' = getCreated(tg.digest, mfresp, blobstore)
    /\ pc' = IF res'.kind = "panic" THEN "panic" ELSE "resolved"
    /\ UNCHANGED <<variant, numDays, dry, keepRepo, removeRepo, now, oldest,
                   repos, last, reps, err, cursor, ri, registry, all, ti, tg,
                   result, blobs, bix, calls, logs, mfresp, blobstore>>

NextResolver == Resolve

SpecResolver == InitResolver /\ [][NextResolver]_vars

(***************************************************************************)
(* The run of main.                                                        *)
(***************************************************************************)
\* fmt.Sprintf("%s:%s", repo, tag)
QName(repo, tag) == <<repo, ":", tag>>

\* re.FindString(s) of the compiled patterns the model draws from: the text of
\* the leftmost match, "" (the empty sequence) when there is none.
FindString(re, s) ==
    CASE re.re = ".*" -> s
      [] re.re = "^a:" -> IF s[1] = "a" THEN <<"a", ":">> ELSE <<>>
      [] re.re = ":t1$" -> IF s[3] = "t1" THEN <<":", "t1">> ELSE <<>>

KeepPatterns == {Nil, [k |-> "regexp", re |-> ":t1$"]}
RemovePatterns == {Nil, [k |-> "regexp", re |-> ".*"], [k |-> "regexp", re |-> "^a:"]}

\* keepMatched with the comparison turned round (== "" for != "")
keepMatchedInverted(repo, tag) ==
    /\ variant = 1
    /\ keepRepo # Nil
    /\ FindString(keepRepo, QName(repo, tag)) = <<>>

\* keepRepo != nil && keepRepo.FindString(repname) != ""  (first variant only)
keepMatched(repo, tag) ==
    /\ variant = 1
    /\ keepRepo # Nil
    /\ FindString(keepRepo, QName(repo, tag)) # <<>>

\* removeRepo != nil && removeRepo.FindString(repname) == ""  (first variant only)
removeExcluded(repo, tag) ==
    /\ variant = 1
    /\ removeRepo # Nil
    /\ FindString(removeRepo, QName(repo, tag)) = <<>>

\* NonEmpty without the test r != "": the padding of a page is appended too
NonEmptyUnfiltered(page) == page

\* the names of a page that are appended: if r != ""
NonEmpty(page) == SelectSeq(page, LAMBDA r : r # "")

Pages == [1..PageSize -> RepoNames \cup {""}]

\* tag lists a repository can answer: the tags in lexical order, any subset
RECURSIVE SortedLists(_)
SortedLists(n) ==
    IF n = 0 THEN {<<>>}
    ELSE SortedLists(n - 1) \cup {Append(l, AllTags[n]) : l \in SortedLists(n - 1)}
TagLists == SortedLists(MaxTags)
Range(f) == {f[i] : i \in DOMAIN f}

\* what the registry answers while one tag is resolved
V2Manifest == Json(Obj([config |-> Obj([digest |-> Str("c1")]), history |-> Absent]))
V1Manifest(w) ==
    Json(Obj([config |-> Absent,
              history |-> Arr(<<Obj([v1Compatibility |->
                  Str(Json(Obj([created |-> Str(Rfc3339(w, 0))])))])>>)]))
StoreWith(w) ==
    [c \in BlobDigests |->
        IF c = "c1" THEN Json(Obj([created |-> Str(Rfc3339(w, 0))])) ELSE FetchError]
RunInputs ==
    {[mf |-> V2Manifest, store |-> StoreWith(w)] : w \in RunWalls}
        \cup {[mf |-> V1Manifest(1), store |-> NoStore],
              [mf |-> Json(Obj([config |-> Absent, history |-> Absent])), store |-> NoStore],
              [mf |-> FetchError, store |-> NoStore],
              [mf |-> Json(Obj([config |-> Absent, history |-> Arr(<<>>)])), store |-> NoStore]}

Instant(i) == [inst |-> i, off |-> 0]

Init ==
    /\ variant \in {1, 2}
    /\ numDays \in Days
    /\ dry \in BOOLEAN
    /\ keepRepo \in (IF variant = 1 THEN KeepPatterns ELSE {Nil})
    /\ removeRepo \in (IF variant = 1 THEN RemovePatterns ELSE {Nil})
    /\ now \in {Instant(i) : i \in Nows}
    \* oldest := time.Now().Add(time.Duration(*numDays) * -24 * time.Hour)
    /\ oldest = Instant(now.inst + numDays * (0 - Day))
    /\ pc = "Repositories"
    /\ repos = <<>> /\ last = "" /\ reps = <<>> /\ err = "nil" /\ cursor = ""
    /\ ri = 0 /\ registry = <<>> /\ all = <<>> /\ ti = 0
    /\ tg = [digest |-> "", failed |-> FALSE]
    /\ res = NoCall
    /\ result = <<>> /\ blobs = <<>> /\ bix = 0 /\ calls = {} /\ logs = {}
    /\ mfresp = Idle
    /\ blobstore = NoStore

config == <<variant, numDays, dry, keepRepo, removeRepo, now, oldest>>
resolverInput == <<mfresp, blobstore>>
perRepo == <<registry, all, ti, tg, res, result, blobs, bix, calls, logs>>

\* getAllRepos, one iteration up to the error check: the page request and the
\* loop over reps
Repositories ==
    /\ pc = "Repositories"
    /\ \E page \in Pages, e \in {"nil", "EOF", "other"} :
         /\ Len(repos) + Len(NonEmpty(page)) <= MaxRepos
         /\ cursor' = last
         /\ reps' = page
         /\ err' = e
         /\ repos' = repos \o NonEmpty(page)
         /\ last' = IF NonEmpty(page) = <<>> THEN last
                    ELSE NonEmpty(page)[Len(NonEmpty(page))]
    /\ pc' = "checkPage"
    /\ UNCHANGED <<config, ri, perRepo, resolverInput>>

\* getAllRepos, the error check that ends the iteration
checkPage ==
    /\ pc = "checkPage"
    /\ IF err = "nil"
       THEN /\ pc' = "Repositories"
            /\ UNCHANGED <<last, reps, err, cursor, ri>>
       ELSE IF err = "EOF"
       THEN /\ pc' = "nextRepo"
            /\ ri' = 1
            /\ last' = "" /\ reps' = <<>> /\ err' = "nil" /\ cursor' = ""
       ELSE /\ pc' = "panic"
            /\ UNCHANGED <<last, reps, err, cursor, ri>>
    /\ UNCHANGED <<config, repos, perRepo, resolverInput>>

\* main: the head of the loop over repos, getRepository and r.tags.All
nextRepo ==
    /\ pc = "nextRepo"
    /\ IF ri > Len(repos)
       THEN /\ pc' = "done"
            /\ UNCHANGED perRepo
       ELSE \/ /\ pc' = "panic"          \* checkErr(e) of getRepository or getBlobInfos
               /\ UNCHANGED perRepo
            \/ \E l \in TagLists :
               \E reg \in [Range(l) -> Digests \cup {"error"}] :
                 /\ all' = l
                 /\ registry' = reg
                 /\ ti' = 1
                 /\ result' = <<>>
                 /\ blobs' = <<>> /\ bix' = 0
                 /\ tg' = [digest |-> "", failed |-> FALSE]
                 /\ res' = NoCall
                 /\ calls' = {} /\ logs' = {}
                 /\ pc' = "tags"
    /\ UNCHANGED <<config, repos, last, reps, err, cursor, ri, resolverInput>>

Line(msg, repo, tag, digest) ==
    [msg |-> msg, repo |-> repo, tag |-> tag, digest |-> digest]

\* afterSkip as `break` (or `return nil, e`): a failing tag ends the loop
afterSkipBreak(i, n) == n + 1

\* `continue` in the loop over all: the index of the tag handled next, of n tags
afterSkip(i, n) == i + 1

\* getBlobInfos: one iteration of the loop over all
processTag ==
    /\ pc = "tags"
    /\ ti <= Len(all)
    /\ LET t == all[ti]
           reponame == repos[ri]
       IN IF registry[t] = "error"
          THEN /\ tg' = [digest |-> "", failed |-> TRUE]
               /\ res' = NoCall
               /\ logs' = logs \cup {Line("cannot query tag descriptor", reponame, t, "")}
               /\ UNCHANGED <<result, pc>>
          ELSE /\ tg' = [digest |-> registry[t], failed |-> FALSE]
               /\ IF keepMatched(reponame, t)
                  THEN /\ res' = NoCall
                       /\ logs' = logs \cup {Line("keep repo which is matched by keep-regexp",
                                                 reponame, t, "")}
                       /\ UNCHANGED <<result, pc>>
                  ELSE \E in \in RunInputs :
                       /\ res' = getCreated(registry[t], in.mf, in.store)
                       /\ IF res'.kind = "panic"
                          THEN /\ pc' = "panic"
                               /\ UNCHANGED <<result, logs>>
                          ELSE IF res'.kind = "err"
                          THEN /\ logs' = logs \cup {Line("cannot get creation time",
                                                         reponame, t, registry[t])}
                               /\ UNCHANGED <<result, pc>>
                          ELSE /\ result' = Append(result,
                                      [repo |-> reponame, tag |-> t,
                                       digest |-> registry[t], created |-> res'.tm])
                               /\ logs' = IF variant = 1
                                          THEN logs \cup {Line("add tag info for inspection",
                                                               reponame, t, registry[t])}
                                          ELSE logs
                               /\ UNCHANGED pc
    /\ ti' = IF pc' = "panic" THEN ti
             ELSE IF result' = result THEN afterSkip(ti, Len(all))
             ELSE ti + 1
    /\ UNCHANGED <<config, repos, last, reps, err, cursor, ri, registry, all,
                   blobs, bix, calls, resolverInput>>

\* getBlobInfos returns result; main starts the loop over blobs
endTags ==
    /\ pc = "tags"
    /\ ti > Len(all)
    /\ blobs' = result
    /\ bix' = 1
    /\ pc' = "blobs"
    /\ UNCHANGED <<config, repos, last, reps, err, cursor, ri, registry, all, ti,
                   tg, res, result, calls, logs, resolverInput>>

\* decide without the `if *dry` branch: a qualifying record is always deleted
decideIgnoringDry(b) ==
    IF numDays >= 0
    THEN IF Before(b.created, oldest)
         THEN IF removeExcluded(b.repo, b.tag) THEN "ignore" ELSE "delete"
         ELSE "none"
    ELSE IF variant = 2 THEN "found" ELSE "none"

\* decide without the guard `if *numDays >= 0`: the age test runs in
\* report-only mode too
decideWithoutThresholdGuard(b) ==
    IF Before(b.created, oldest)
    THEN IF removeExcluded(b.repo, b.tag) THEN "ignore"
         ELSE IF dry THEN "dry"
         ELSE "delete"
    ELSE IF variant = 2 /\ numDays < 0 THEN "found" ELSE "none"

\* main: what the body of the loop over blobs does with record b
decide(b) ==
    IF numDays >= 0
    THEN IF Before(b.created, oldest)
         THEN IF removeExcluded(b.repo, b.tag) THEN "ignore"
              ELSE IF dry THEN "dry"
              ELSE "delete"
         ELSE "none"
    ELSE IF variant = 2 THEN "found" ELSE "none"

\* afterDelete with the error handed to checkErr: a failed Delete panics
afterDeleteFatal(ok) == IF ok THEN "blobs" ELSE "panic"

\* where main goes on after manifests.Delete answered: its error is logged
\* (first variant) or dropped (second variant), never passed to checkErr
afterDelete(ok) == "blobs"

\* main: one iteration of the loop over blobs
evalBlob ==
    /\ pc = "blobs"
    /\ bix <= Len(blobs)
    /\ LET b == blobs[bix]
           d == decide(b)
       IN CASE d = "delete" ->
                 \E ok \in BOOLEAN :
                   /\ calls' = calls \cup
                        {[repo |-> repos[ri], digest |-> b.digest, tag |-> b.tag, ok |-> ok]}
                   /\ logs' = IF variant = 1 /\ ~ok
                              THEN logs \cup {Line("error deleting digest", b.repo, b.tag, b.digest)}
                              ELSE logs
                   /\ pc' = afterDelete(ok)
            [] d = "dry" ->
                 /\ logs' = logs \cup {Line("DRY", b.repo, b.tag, b.digest)}
                 /\ UNCHANGED <<calls, pc>>
            [] d = "found" ->
                 /\ logs' = logs \cup {Line("FOUND", b.repo, b.tag, b.digest)}
                 /\ UNCHANGED <<calls, pc>>
            [] d = "ignore" ->
                 /\ logs' = logs \cup {Line("repo is too old but not matched by remove-regexp",
                                           b.repo, b.tag, "")}
                 /\ UNCHANGED <<calls, pc>>
            [] d = "none" -> UNCHANGED <<calls, logs, pc>>
    /\ bix' = bix + 1
    /\ UNCHANGED <<config, repos, last, reps, err, cursor, ri, registry, all,
                   ti, tg, res, result, blobs, resolverInput>>

\* main: the loop over blobs is through, on to the next repository
endBlobs ==
    /\ pc = "blobs"
    /\ bix > Len(blobs)
    /\ ri' = ri + 1
    /\ pc' = "nextRepo"
    \* rep and blobs go out of scope with the iteration
    /\ registry' = <<>> /\ all' = <<>> /\ ti' = 0
    /\ tg' = [digest |-> "", failed |-> FALSE] /\ res' = NoCall
    /\ result' = <<>> /\ blobs' = <<>> /\ bix' = 0 /\ calls' = {} /\ logs' = {}
    /\ UNCHANGED <<config, repos, last, reps, err, cursor, resolverInput>>

Next ==
    \/ Repositories
    \/ checkPage
    \/ nextRepo
    \/ processTag
    \/ endTags
    \/ evalBlob
    \/ endBlobs

Spec == Init /\ [][Next]_vars

(***************************************************************************)
(* Properties                                                              *)
(***************************************************************************)
\* the records the loop over blobs has been through
Evaluated == IF pc = "blobs" THEN {blobs[i] : i \in 1..(bix - 1)} ELSE {}

\* a Delete call, or a DRY line, was issued for record b
CallFor(b) == \E c \in calls : c.repo = b.repo /\ c.tag = b.tag /\ c.digest = b.digest
DryLineFor(b) == Line("DRY", b.repo, b.tag, b.digest) \in logs

\* b is older than the threshold and no configured remove-pattern excludes it
Qualifies(b) ==
    /\ numDays >= 0
    /\ b.created.inst < now.inst - numDays * Day
    /\ \/ removeRepo = Nil
       \/ FindString(removeRepo, QName(b.repo, b.tag)) # <<>>

\* C1: with -dry set no manifests.Delete call is issued, however many records
\* qualify; every qualifying record gets a DRY log line instead.
C1_DryRunNeverDeletes ==
    dry => /\ calls = {}
           /\ \A b \in Evaluated : Qualifies(b) => DryLineFor(b)

C1_Witness ==
    /\ dry
    /\ pc = "blobs"
    /\ bix > Len(blobs)
    /\ Cardinality({b \in Evaluated : Qualifies(b) /\ DryLineFor(b)}) >= 2

\* C2: no manifests.Delete call is issued for a tag whose qualified name the
\* configured keep-pattern matches, whatever the remove-pattern and the age.
C2_KeptTagNeverDeleted ==
    keepRepo # Nil =>
        \A c \in calls : FindString(keepRepo, QName(c.repo, c.tag)) = <<>>

C2_Witness ==
    /\ keepRepo # Nil
    /\ removeRepo # Nil
    /\ numDays = 0
    /\ pc = "blobs"
    /\ bix > Len(blobs)
    /\ calls # {}
    /\ \E t \in Range(all) :
         /\ registry[t] # "error"
         /\ FindString(keepRepo, QName(repos[ri], t)) # <<>>
         /\ FindString(removeRepo, QName(repos[ri], t)) # <<>>

\* C3: with a negative -num no manifests.Delete call and no DRY line is ever
\* issued, whatever -dry and the patterns are; every record gone through is
\* dumped to the log (the FOUND line of the second variant, the inspection
\* line of the first).
C3_ReportOnlyNeverDeletes ==
    numDays < 0 =>
        /\ calls = {}
        /\ \A l \in logs : l.msg # "DRY"
        /\ \A b \in Evaluated :
             /\ variant = 2 => Line("FOUND", b.repo, b.tag, b.digest) \in logs
             /\ variant = 1 =>
                  Line("add tag info for inspection", b.repo, b.tag, b.digest) \in logs

C3_Witness ==
    /\ numDays < 0
    /\ ~dry
    /\ pc = "blobs"
    /\ bix > Len(blobs)
    /\ Len(blobs) = 2
    /\ \E b \in Evaluated : b.created.inst < now.inst - Day

\* C4: getCreated never aborts the process, whatever the manifest and blob
\* payloads look like.
C4_ResolverNeverAborts == res.kind # "panic"

\* C5: a tag whose descriptor fetch fails, or for which getCreated returns an
\* error, adds no record and the loop goes on with the next tag of the same
\* repository; a record is added only for the tag at hand, and only when both
\* the descriptor fetch and the resolution succeeded.
C5_FailureSkipsOneTag ==
    [][(pc = "tags" /\ ti <= Len(all)) =>
         /\ (tg'.failed \/ res'.kind = "err") =>
              /\ result' = result
              /\ pc' = "tags"
              /\ ti' = ti + 1
              /\ all' = all
         /\ result' # result =>
              /\ ~tg'.failed
              /\ res'.kind = "ok"
              /\ registry[all[ti]] # "error"
              /\ result' = Append(result, [repo |-> repos[ri], tag |-> all[ti],
                                           digest |-> registry[all[ti]],
                                           created |-> res'.tm])]_vars

C5_Witness ==
    /\ pc = "tags"
    /\ Len(all) = 2
    /\ ti > Len(all)
    /\ \E l \in logs : l.msg = "cannot get creation time" /\ l.tag = all[1]
    /\ Len(result) = 1
    /\ result[1].tag = all[2]

\* C6: a manifests.Delete call that returns an error does not end the run: the
\* loop over blobs goes on with the next record, it is left only after the
\* last record and then for the next repository, and every record gone
\* through that qualifies has had its Delete call.
C6_DeleteErrorNotFatal ==
    /\ [](~dry => \A b \in Evaluated : Qualifies(b) => CallFor(b))
    /\ [][(\E c \in calls' \ calls : ~c.ok) =>
            /\ pc' = "blobs"
            /\ bix' = bix + 1
            /\ blobs' = blobs
            /\ repos' = repos
            /\ ri' = ri]_vars
    /\ [][(pc = "blobs" /\ pc' # "blobs") =>
            /\ bix > Len(blobs)
            /\ pc' = "nextRepo"
            /\ ri' = ri + 1
            /\ repos' = repos]_vars

C6_Witness ==
    /\ pc = "blobs"
    /\ bix > Len(blobs)
    /\ ri < Len(repos)
    /\ Len(all) = 2
    /\ \E c1 \in calls, c2 \in calls :
         /\ c1.tag = all[1] /\ ~c1.ok
         /\ c2.tag = all[2] /\ c2.ok

\* the non-empty names of a page, in the order served
RECURSIVE Served(_)
Served(page) ==
    IF page = <<>> THEN <<>>
    ELSE IF Head(page) = "" THEN Served(Tail(page))
    ELSE <<Head(page)>> \o Served(Tail(page))

\* C7 as stated: whatever the pages hold, the list getAllRepos builds has no
\* empty-string entry and no duplicate.
C7_NoEmptyNoDuplicate ==
    /\ \A i \in DOMAIN repos : repos[i] # ""
    /\ \A i, j \in DOMAIN repos : i # j => repos[i] # repos[j]

\* C7 as amended: getAllRepos returns the non-empty names of the pages in the
\* order served (so no empty-string entry, and a name twice exactly when the
\* registry served it twice); every page request carries as cursor the last
\* non-empty name returned so far, "" before the first; the walk returns when
\* and only when the request answered end-of-stream, goes on after a request
\* without error and aborts the run on any other error.
C7_WalkReturnsServedNames ==
    /\ [](/\ \A i \in DOMAIN repos : repos[i] # ""
          /\ pc \in {"Repositories", "checkPage"} =>
               last = IF repos = <<>> THEN "" ELSE repos[Len(repos)])
    /\ [][pc = "Repositories" =>
            /\ cursor' = last
            /\ repos' = repos \o Served(reps')]_vars
    /\ [][pc = "checkPage" =>
            /\ repos' = repos
            /\ (pc' = "nextRepo") <=> (err = "EOF")
            /\ (pc' = "Repositories") <=> (err = "nil")
            /\ (pc' = "panic") <=> (err = "other")]_vars

C7_Witness ==
    /\ pc = "checkPage"
    /\ err = "EOF"
    /\ repos = <<"a", "b">>
    /\ cursor = "a"
    /\ reps[1] = ""
    /\ last = "b"

\* the manifest handed to the resolver, when it decodes to a JSON object
IsObjectManifest == mfresp.t = "json" /\ mfresp.v.k = "object"
Fields == mfresp.v.f
WithHistory(h) == Json(Obj([Fields EXCEPT !.history = h]))
WithoutConfig == Json(Obj([Fields EXCEPT !.config = Absent]))
\* the instant and zone a timestamp text denotes
TimeOf(text) == [inst |-> text.wall - text.off, off |-> text.off]

\* C8 as stated: a timestamp getCreated returns for a manifest that has a
\* config field is the created value of the config blob config.digest names;
\* one it returns for a manifest without config field but with a history
\* array is the created value of the first entry's v1Compatibility document.
C8_ConfigFieldDecidesPath ==
    (res.kind = "ok" /\ IsObjectManifest) =>
        /\ Fields.config.k # "absent" =>
             /\ Fields.config.k = "object"
             /\ res.tm = TimeOf(blobstore[Fields.config.f.digest.s].v.f.created.s)
        /\ (Fields.config.k = "absent" /\ Fields.history.k = "array") =>
             res.tm = TimeOf(Fields.history.items[1].f.v1Compatibility.s.v.f.created.s)

\* C8 as amended: for a manifest whose config field is present and not JSON
\* null the outcome of getCreated does not depend on history, and a timestamp
\* it returns is the created value of the config blob config.digest names; for
\* a manifest whose config field is absent or null and that has a history
\* array the outcome does not depend on the entries after the first, and a
\* timestamp it returns is the created value of the first entry's decoded
\* v1Compatibility document.
C8_PathSelection ==
    (res.kind # "none" /\ IsObjectManifest) =>
        /\ Fields.config.k \notin {"absent", "null"} =>
             /\ res = getCreated(tg.digest, WithHistory(Absent), blobstore)
             /\ res.kind = "ok" =>
                  res.tm = TimeOf(blobstore[Fields.config.f.digest.s].v.f.created.s)
        /\ (Fields.config.k \in {"absent", "null"} /\ Fields.history.k = "array") =>
             /\ Len(Fields.history.items) > 0 =>
                  res = getCreated(tg.digest,
                                   WithHistory(Arr(<<Fields.history.items[1]>>)), blobstore)
             /\ res.kind = "ok" =>
                  res.tm = TimeOf(Fields.history.items[1].f.v1Compatibility.s.v.f.created.s)

C8_Witness ==
    /\ res.kind = "ok"
    /\ IsObjectManifest
    /\ Fields.config.k = "object"
    /\ Fields.history.k = "array"
    /\ Len(Fields.history.items) = 2
    /\ getCreated(tg.digest, WithoutConfig, blobstore).kind = "ok"
    /\ getCreated(tg.digest, WithoutConfig, blobstore).tm # res.tm

\* C9: with -num >= 0 a record is selected for deletion (a Delete call, or a
\* DRY line under -dry) exactly when it was created strictly before
\* now - num days and no configured remove-pattern fails to match its
\* qualified name; no record the keep-pattern matches is among the records.
C9_SelectedIffOldAndEligible ==
    numDays >= 0 =>
        \A b \in Evaluated :
            /\ (CallFor(b) \/ DryLineFor(b)) <=>
                 /\ b.created.inst < now.inst - numDays * Day
                 /\ \/ removeRepo = Nil
                    \/ FindString(removeRepo, QName(b.repo, b.tag)) # <<>>
            /\ CallFor(b) => ~dry
            /\ keepRepo # Nil => FindString(keepRepo, QName(b.repo, b.tag)) = <<>>

C9_Witness ==
    /\ numDays > 0
    /\ removeRepo # Nil
    /\ pc = "blobs"
    /\ bix > Len(blobs)
    /\ \E b1 \in Evaluated, b2 \in Evaluated :
         /\ b1.created.inst = now.inst - numDays * Day
         /\ ~CallFor(b1)
         /\ b2.created.inst < now.inst - numDays * Day
         /\ CallFor(b2)

\* C10: no manifests.Delete call is issued for a digest that a tag of the
\* same repository matched by the keep-pattern points to.
C10_KeptManifestNeverDeleted ==
    keepRepo # Nil =>
        \A c \in calls : \A t \in Range(all) :
            FindString(keepRepo, QName(c.repo, t)) # <<>> => registry[t] # c.digest

====
